---------------------------- MODULE Spec2Model ----------------------------
(***************************************************************************)
(* Orchestration layer of xen-orchestra:                                   *)
(*   - the watcher bridge of src/src/xapi.js (object and task watchers     *)
(*     fed by the notification stream, tracked task creation);             *)
(*   - the SR maintenance-mode workflows of src/@xen-orchestra/xapi/sr.js  *)
(*     (enableMaintenanceMode under golike-defer, disableMaintenanceMode). *)
(*   - the disk import of the same file (importVdi under golike-defer).    *)
(* Each part has its own specifications: Spec, SpecSr, SpecSrRace,         *)
(* SpecSrDisable and SpecImport.                                           *)
(***************************************************************************)
EXTENDS Integers, Sequences, FiniteSets, TLC

(***************************************************************************)
(* Bounds of the watcher bridge model.                                     *)
(***************************************************************************)
NumObjects == 2
MaxTasks == 1
MaxHandles == 3
MaxBatch == 2

\* Remote objects that are no tasks (VMs, SRs, ...), and the tasks created
\* through _createTask.
Objects == 1..NumObjects
Tasks == (NumObjects + 1)..(NumObjects + MaxTasks)
AllObjects == Objects \cup Tasks

\* The two alias keys a notification carries: $id and $ref.
Ref(n) == <<"ref", n>>
Id(n) == <<"id", n>>
Keys == {Id(n) : n \in AllObjects} \cup {Ref(n) : n \in AllObjects}
Refs == {Ref(n) : n \in AllObjects}

Statuses == {"undefined", "pending", "success", "failure"}
Results == {"res1", "res2"}
ErrorInfos == {<<"SR_BACKEND_FAILURE", "p1", "p2">>}

\* The versions of object n a notification can carry: an object that is no
\* task has no status, a task is pending, or has a result, or has failed.
Versions(n) ==
  IF n \in Objects
  THEN {[obj |-> n, status |-> "undefined", result |-> "none", error_info |-> <<>>]}
  ELSE {[obj |-> n, status |-> "pending", result |-> "none", error_info |-> <<>>]}
       \cup {[obj |-> n, status |-> "success", result |-> r, error_info |-> <<>>] :
                r \in Results}
       \cup {[obj |-> n, status |-> "failure", result |-> "none", error_info |-> e] :
                e \in ErrorInfos}

NoObject == [obj |-> 0, status |-> "none", result |-> "none", error_info |-> <<>>]

VARIABLES
  objectWatchers,  \* this._objectWatchers: key -> handle (0: no entry)
  taskWatchers,    \* this._taskWatchers: ref -> handle (0: no entry)
  promises,        \* the promises behind the watchers, indexed by handle
  materialized,    \* objects present in this.objects
  created,         \* per task of _createTask: stage and returned handle
  reactions,       \* queued pFinally callbacks (tasks whose watch settled)
  destroyCalls,    \* per task: number of task.destroy calls issued
  destroyInFlight, \* task.destroy calls not yet answered
  terminalSeen,    \* tasks for which a terminal status has been notified
  lastObjs,        \* objects of the batch just processed ({} otherwise)
  lastReuse        \* promise a wait has just been given again (0 otherwise)

xapiVars == <<objectWatchers, taskWatchers, promises, materialized, created,
              reactions, destroyCalls, destroyInFlight, terminalSeen,
              lastObjs, lastReuse>>

\* The pool and the maintenance-mode calls (sr.js).
VARIABLES
  vmPower,      \* VM.power_state
  pbdAttached,  \* PBD.currently_attached
  otherConfig,  \* SR.other_config[OC_MAINTENANCE] (<<>>: no such key)
  calls,        \* the invocations of enable/disableMaintenanceMode
  failures      \* remote calls that failed for an outside reason so far

srVars == <<vmPower, pbdAttached, otherConfig, calls, failures>>

\* The disk imports (sr.js, importVdi).
VARIABLES
  imports,      \* the invocations of importVdi
  vdis          \* the VDIs of the pool, by ref

importVars == <<imports, vdis>>
vars == <<xapiVars, srVars, importVars>>

NewPromise_replayed(kind, key, fin) ==
  [kind |-> kind, key |-> key,
   state |-> IF kind = "task" /\ \E t \in terminalSeen : Ref(t) = key
             THEN "resolved" ELSE "pending",
   value |-> "none", cause |-> NoObject, settles |-> 0, finally |-> fin]

\* new Promise((resolve_, reject_) => ...) as stored in a watcher; cause is
\* the notified object that settled it, settles counts the calls of its
\* resolve/reject
NewPromise(kind, key, fin) ==
  [kind |-> kind, key |-> key, state |-> "pending", value |-> "none",
   cause |-> NoObject, settles |-> 0, finally |-> fin]

wrapError_noSlice(error) == [code |-> Head(error), params |-> error]

\* wrapError: code is error[0], params is error.slice(1)
wrapError(error) == [code |-> Head(error), params |-> Tail(error)]

pFinallyRuns_onlyFulfilled(state) == state = "resolved"

\* pFinally(promise, cb): cb runs when the promise is fulfilled or rejected
pFinallyRuns(state) == state \in {"resolved", "rejected"}

\* watcher.resolve(v) / watcher.reject(e): only the first call settles
Settle(pr, rq, h, state, value, object) ==
  LET p == pr[h]
      first == p.state = "pending"
      p2 == IF first
            THEN [p EXCEPT !.state = state, !.value = value, !.cause = object,
                           !.settles = @ + 1]
            ELSE [p EXCEPT !.settles = @ + 1]
  IN [pr |-> [pr EXCEPT ![h] = p2],
      rq |-> IF first /\ p.finally # 0 /\ pFinallyRuns(state)
             THEN rq \cup {p.finally} ELSE rq]

XapiInit ==
  /\ objectWatchers = [k \in Keys |-> 0]
  /\ taskWatchers = [r \in Refs |-> 0]
  /\ promises = <<>>
  /\ materialized = {}
  /\ created = [t \in Tasks |-> [stage |-> "absent", ret |-> 0]]
  /\ reactions = {}
  /\ destroyCalls = [t \in Tasks |-> 0]
  /\ destroyInFlight = {}
  /\ terminalSeen = {}
  /\ lastObjs = {}
  /\ lastReuse = 0


ReusesWatcher_never(table, key) == FALSE

\* `let watcher = watchers[key]; if (!watcher)` in _waitObject and
\* _watchTask: an entry of the table is reused
ReusesWatcher(table, key) == table[key] # 0

\* `key in watchers` in onAddOrUpdate
HasWatcher(table, key) == table[key] # 0

DeleteObjectWatcher_kept(table, key) == table

\* `delete objectsWatchers[key]`
DeleteObjectWatcher(table, key) == [table EXCEPT ![key] = 0]

DeleteTaskWatcher_kept(table, ref) == table

\* `delete taskWatchers[ref]`
DeleteTaskWatcher(table, ref) == [table EXCEPT ![ref] = 0]

\* Objects the notification feed can speak of and callers can name.
Existing == Objects \cup {t \in Tasks : created[t].stage # "absent"}
Known == Objects \cup {t \in Tasks : created[t].stage = "returned"}

\* A task created by _createTask stays pending until its creator uses it.
NotifiableVersions(n) ==
  IF n \in Tasks /\ created[n].stage = "calling"
  THEN {v \in Versions(n) : v.status = "pending"}
  ELSE Versions(n)

\* A batch holds one version of each of its objects (the collection is keyed
\* by $id); forEach visits them in order.
RECURSIVE BatchesOf(_, _)
BatchesOf(objs, l) ==
  IF l = 0 THEN {<<>>}
  ELSE {<<>>} \cup
       UNION {{<<v>> \o b : v \in NotifiableVersions(n),
                            b \in BatchesOf(objs \ {n}, l - 1)} : n \in objs}

Batches == BatchesOf(Existing, MaxBatch) \ {<<>>}

\* _waitObject(idOrUuidOrRef)
WaitObject(k) ==
  /\ k \in {Id(n) : n \in Known} \cup {Ref(n) : n \in Known}
  /\ IF ReusesWatcher(objectWatchers, k)
     THEN /\ lastReuse' = objectWatchers[k]
          /\ UNCHANGED <<objectWatchers, promises>>
     ELSE /\ Len(promises) < MaxHandles
          /\ promises' = Append(promises, NewPromise("object", k, 0))
          /\ objectWatchers' = [objectWatchers EXCEPT ![k] = Len(promises) + 1]
          /\ lastReuse' = 0
  /\ lastObjs' = {}
  /\ UNCHANGED <<taskWatchers, materialized, created, reactions, destroyCalls,
                 destroyInFlight, terminalSeen>>
  /\ UNCHANGED <<srVars, importVars>>

\* _watchTask(ref)
WatchTask(r) ==
  /\ r \in {Ref(n) : n \in Known}
  /\ IF ReusesWatcher(taskWatchers, r)
     THEN /\ lastReuse' = taskWatchers[r]
          /\ UNCHANGED <<taskWatchers, promises>>
     ELSE /\ Len(promises) < MaxHandles
          /\ promises' = Append(promises, NewPromise("task", r, 0))
          /\ taskWatchers' = [taskWatchers EXCEPT ![r] = Len(promises) + 1]
          /\ lastReuse' = 0
  /\ lastObjs' = {}
  /\ UNCHANGED <<objectWatchers, materialized, created, reactions, destroyCalls,
                 destroyInFlight, terminalSeen>>
  /\ UNCHANGED <<srVars, importVars>>

\* _createTask up to its await: this.call('task.create', ...)
CreateTaskCall(t) ==
  /\ t \in Tasks
  /\ created[t].stage = "absent"
  /\ \A u \in Tasks : u < t => created[u].stage # "absent"
  /\ created' = [created EXCEPT ![t].stage = "calling"]
  /\ lastObjs' = {}
  /\ lastReuse' = 0
  /\ UNCHANGED <<objectWatchers, taskWatchers, promises, materialized, reactions,
                 destroyCalls, destroyInFlight, terminalSeen>>
  /\ UNCHANGED <<srVars, importVars>>

\* _createTask after task.create has answered: pFinally(this._watchTask(ref),
\* ...) then return this._getOrWaitObject(ref)
CreateTaskResume(t) ==
  /\ t \in Tasks
  /\ created[t].stage = "calling"
  /\ LET r == Ref(t)
         newTask == ~ReusesWatcher(taskWatchers, r)
         th == IF newTask THEN Len(promises) + 1 ELSE taskWatchers[r]
         pr1 == IF newTask
                THEN Append(promises, NewPromise("task", r, t))
                ELSE [promises EXCEPT ![th].finally = t]
         present == t \in materialized
         newObj == ~present /\ ~ReusesWatcher(objectWatchers, r)
         oh == IF present THEN 0
               ELSE IF newObj THEN Len(pr1) + 1 ELSE objectWatchers[r]
         pr2 == IF newObj THEN Append(pr1, NewPromise("object", r, 0)) ELSE pr1
     IN /\ Len(pr2) <= MaxHandles
        /\ promises' = pr2
        /\ taskWatchers' = [taskWatchers EXCEPT ![r] = th]
        /\ objectWatchers' = IF present THEN objectWatchers
                             ELSE [objectWatchers EXCEPT ![r] = oh]
        /\ created' = [created EXCEPT ![t] = [stage |-> "returned", ret |-> oh]]
  /\ lastObjs' = {}
  /\ lastReuse' = 0
  /\ UNCHANGED <<materialized, reactions, destroyCalls, destroyInFlight,
                 terminalSeen>>
  /\ UNCHANGED <<srVars, importVars>>

\* The body of forEach in onAddOrUpdate, for one object of the batch.
ProcessObject(st, object) ==
  LET id == Id(object.obj)
      ref == Ref(object.obj)
      s1 == IF HasWatcher(st.ow, id)
            THEN LET r == Settle(st.pr, st.rq, st.ow[id], "resolved", object, object)
                 IN [st EXCEPT !.pr = r.pr, !.rq = r.rq,
                               !.ow = DeleteObjectWatcher(st.ow, id)]
            ELSE st
      s2 == IF HasWatcher(s1.ow, ref)
            THEN LET r == Settle(s1.pr, s1.rq, s1.ow[ref], "resolved", object, object)
                 IN [s1 EXCEPT !.pr = r.pr, !.rq = r.rq,
                               !.ow = DeleteObjectWatcher(s1.ow, ref)]
            ELSE s1
      s3 == IF HasWatcher(s2.tw, ref)
            THEN IF object.status = "success"
                 THEN LET r == Settle(s2.pr, s2.rq, s2.tw[ref], "resolved",
                                      object.result, object)
                      IN [s2 EXCEPT !.pr = r.pr, !.rq = r.rq,
                                    !.tw = DeleteTaskWatcher(s2.tw, ref)]
                 ELSE IF object.status = "failure"
                 THEN LET r == Settle(s2.pr, s2.rq, s2.tw[ref], "rejected",
                                      wrapError(object.error_info), object)
                      IN [s2 EXCEPT !.pr = r.pr, !.rq = r.rq,
                                    !.tw = DeleteTaskWatcher(s2.tw, ref)]
                 ELSE s2
            ELSE s2
  IN s3

RECURSIVE onAddOrUpdate(_, _)
onAddOrUpdate(st, objects) ==
  IF objects = <<>> THEN st
  ELSE onAddOrUpdate(ProcessObject(st, Head(objects)), Tail(objects))

\* One batch of the notification feed: the collection is updated and the
\* 'add'/'update' listener runs over the batch.
Notify(batch) ==
  /\ \E st \in {onAddOrUpdate([ow |-> objectWatchers, tw |-> taskWatchers,
                               pr |-> promises, rq |-> reactions], batch)} :
       /\ objectWatchers' = st.ow
       /\ taskWatchers' = st.tw
       /\ promises' = st.pr
       /\ reactions' = st.rq
  /\ materialized' = materialized \cup {batch[i].obj : i \in 1..Len(batch)}
  /\ terminalSeen' = terminalSeen \cup
       {batch[i].obj : i \in {j \in 1..Len(batch) :
            batch[j].obj \in Tasks /\ batch[j].status \in {"success", "failure"}}}
  /\ lastObjs' = {batch[i].obj : i \in 1..Len(batch)}
  /\ lastReuse' = 0
  /\ UNCHANGED <<created, destroyCalls, destroyInFlight>>
  /\ UNCHANGED <<srVars, importVars>>

\* The pFinally callback of _createTask: this.call('task.destroy', ref)
RunReaction(t) ==
  /\ t \in reactions
  /\ reactions' = reactions \ {t}
  /\ destroyCalls' = [destroyCalls EXCEPT ![t] = @ + 1]
  /\ destroyInFlight' = destroyInFlight \cup {t}
  /\ lastObjs' = {}
  /\ lastReuse' = 0
  /\ UNCHANGED <<objectWatchers, taskWatchers, promises, materialized, created,
                 terminalSeen>>
  /\ UNCHANGED <<srVars, importVars>>

\* task.destroy answers: debug('task destroyed')
DestroyDone(t) ==
  /\ t \in destroyInFlight
  /\ destroyInFlight' = destroyInFlight \ {t}
  /\ lastObjs' = {}
  /\ lastReuse' = 0
  /\ UNCHANGED <<objectWatchers, taskWatchers, promises, materialized, created,
                 reactions, destroyCalls, terminalSeen>>
  /\ UNCHANGED <<srVars, importVars>>

Next ==
  \/ \E k \in Keys : WaitObject(k)
  \/ \E r \in Refs : WatchTask(r)
  \/ \E t \in Tasks : CreateTaskCall(t)
  \/ \E t \in Tasks : CreateTaskResume(t)
  \/ \E b \in Batches : Notify(b)
  \/ \E t \in Tasks : RunReaction(t)
  \/ \E t \in Tasks : DestroyDone(t)


(***************************************************************************)
(* SR maintenance mode (src/@xen-orchestra/xapi/sr.js).                    *)
(***************************************************************************)
\* Remote calls that may fail for a reason outside the model.
MaxFailures == 2

\* The invocations: two of enableMaintenanceMode, two of
\* disableMaintenanceMode.  A specification decides in its initial state
\* which of them its callers make.
Enables == {1, 2}
Disables == {3, 4}
Calls == Enables \cup Disables

\* The pool seen from one SR: its VDIs, their VBDs, the VMs behind them and
\* the PBDs of the SR.  vmA has a disk on both VDIs.
VMs == {"vmA", "vmB"}
PBDs == {"pbd1", "pbd2"}
SrVDIs == {"vdi1", "vdi2"}
VdiVBDs == [vdi1 |-> {"vbd1", "vbd2"}, vdi2 |-> {"vbd3"}]
VbdVM == [vbd1 |-> "vmA", vbd2 |-> "vmB", vbd3 |-> "vmA"]
VmUuid == [vmA |-> "uuidA", vmB |-> "uuidB"]
PbdUuid == [pbd1 |-> "uuid1", pbd2 |-> "uuid2"]
VmByUuid(u) == CHOOSE v \in VMs : VmUuid[v] = u
PbdByUuid(u) == CHOOSE q \in PBDs : PbdUuid[q] = u

\* JSON.stringify(state): the properties that are set, in insertion order
JSONstringify(state) ==
  <<<<"timestamp", state.timestamp>>>>
  \o (IF state.hasShutdownVms THEN <<<<"shutdownVms", state.shutdownVms>>>> ELSE <<>>)
  \o (IF state.hasUnpluggedPbds THEN <<<<"unpluggedPbds", state.unpluggedPbds>>>> ELSE <<>>)

\* JSON.parse(text): a property that is not in the text is undefined
JSONparse(text) ==
  LET has(name) == \E i \in 1..Len(text) : text[i][1] = name
      get(name) == text[CHOOSE i \in 1..Len(text) : text[i][1] = name][2]
  IN [timestamp |-> get("timestamp"),
      hasShutdownVms |-> has("shutdownVms"),
      shutdownVms |-> IF has("shutdownVms") THEN get("shutdownVms") ELSE {},
      hasUnpluggedPbds |-> has("unpluggedPbds"),
      unpluggedPbds |-> IF has("unpluggedPbds") THEN get("unpluggedPbds") ELSE <<>>]

\* const state = { timestamp: Date.now() }; the clock is abstracted to the
\* rank of the call
NewState(c) ==
  [timestamp |-> c, hasShutdownVms |-> FALSE, shutdownVms |-> {},
   hasUnpluggedPbds |-> FALSE, unpluggedPbds |-> <<>>]

IdleCall ==
  [pc |-> "idle", vmsToShutdown |-> {}, runningVms |-> {},
   state |-> NewState(0),
   vmTask |-> [v \in VMs |-> "none"], pbdTask |-> [q \in PBDs |-> "none"],
   deferred |-> <<>>, next |-> 0, issued |-> <<>>, compFrom |-> 0,
   error |-> "none", errors |-> <<>>,
   preVm |-> [v \in VMs |-> "Halted"], prePbd |-> [q \in PBDs |-> FALSE],
   alone |-> TRUE]

\* The pools the model starts from.
PowerStates == {f \in [VMs -> {"Running", "Paused", "Halted"}] :
                  f["vmA"] # "Halted" /\ f["vmB"] # "Paused"}
Attachments == {f \in [PBDs -> BOOLEAN] : f["pbd1"]}

\* An SR in its normal state.
SrNormal ==
  /\ vmPower \in PowerStates
  /\ pbdAttached \in Attachments
  /\ otherConfig = <<>>

\* An SR that an earlier session has put in maintenance mode: the state is
\* kept in other_config and outlives the session.
SrUnderMaintenance ==
  \E power \in PowerStates, attached \in Attachments :
    \E order \in {o \in [1..Cardinality({q \in PBDs : attached[q]}) -> PBDs] :
                    {o[i] : i \in DOMAIN o} = {q \in PBDs : attached[q]}} :
      /\ vmPower = [v \in VMs |-> IF power[v] \in {"Running", "Paused"}
                                   THEN "Halted" ELSE power[v]]
      /\ pbdAttached = [q \in PBDs |-> FALSE]
      /\ otherConfig = JSONstringify(
           [timestamp |-> 0,
            hasShutdownVms |-> TRUE,
            shutdownVms |-> {<<VmUuid[v], power[v] = "Paused">> :
                               v \in {w \in VMs : power[w] \in {"Running", "Paused"}}},
            hasUnpluggedPbds |-> TRUE,
            unpluggedPbds |-> [i \in DOMAIN order |-> PbdUuid[order[i]]]])

\* One enable and one disable, remote calls may fail.
SrInit ==
  /\ SrNormal \/ SrUnderMaintenance
  /\ calls = [c \in Calls |-> IF c \in {2, 4} THEN [IdleCall EXCEPT !.pc = "unused"]
                                             ELSE IdleCall]
  /\ failures = 0

\* Two enables and one disable, no remote call fails for an outside reason.
SrRaceInit ==
  /\ SrNormal
  /\ calls = [c \in Calls |-> IF c = 4 THEN [IdleCall EXCEPT !.pc = "unused"]
                                        ELSE IdleCall]
  /\ failures = MaxFailures

\* Two disables of an SR under maintenance, remote calls may fail.
SrDisableInit ==
  /\ SrUnderMaintenance
  /\ calls = [c \in Calls |-> IF c \in Enables THEN [IdleCall EXCEPT !.pc = "unused"]
                                               ELSE IdleCall]
  /\ failures = 0

\* A call starts: what it sees of the others, and what the others see of it.
Started(cs, c) ==
  [d \in Calls |->
     IF d = c
     THEN [cs[d] EXCEPT !.preVm = vmPower, !.prePbd = pbdAttached,
                        !.alone = \A e \in Calls \ {c} :
                                     cs[e].pc \in {"idle", "unused", "done", "failed"}]
     ELSE IF cs[d].pc \notin {"idle", "unused"}
          THEN [cs[d] EXCEPT !.alone = FALSE] ELSE cs[d]]

\* A remote call answers: ok needs the call to be possible, and a possible
\* call may still fail for an outside reason.
Answer(ok, possible) ==
  /\ ok => possible
  /\ (~ok /\ possible) => failures < MaxFailures
  /\ failures' = IF ~ok /\ possible THEN failures + 1 ELSE failures

Issue(op, target, ok) == [op |-> op, target |-> target, ok |-> ok]

\* $defer.onFailure.call(this, method, ...args)
RemoveKeyAction == [op |-> "SR.remove_from_other_config", target |-> "sr", paused |-> FALSE]
StartAction(v, isPaused) == [op |-> "VM.start", target |-> v, paused |-> isPaused]
PlugAction(q) == [op |-> "PBD.plug", target |-> q, paused |-> FALSE]

DeferredAtConflict_registeredFirst == <<RemoveKeyAction>>

\* The compensation stack when SR.add_to_other_config throws: the removal of
\* the key is registered after the call.
DeferredAtConflict == <<>>

VmsToShutdownOk_unchecked(vmsToShutdown, runningVmUuids) == TRUE

\* for (const vmUuid of runningVmUuids) if (!set.has(vmUuid)) throw
VmsToShutdownOk(vmsToShutdown, runningVmUuids) ==
  \A vmUuid \in runningVmUuids : vmUuid \in vmsToShutdown

RunningVms_onlyRunning(power) ==
  {<<v, FALSE>> : v \in {w \in VMs : power[w] = "Running"}}

\* handleVbd over every VBD of every VDI of the SR: runningVms maps a VM that
\* is Running or Paused to isPaused
RunningVms(power) ==
  LET vbds == UNION {VdiVBDs[d] : d \in SrVDIs}
      vms == {VbdVM[b] : b \in vbds}
  IN {<<v, power[v] = "Paused">> : v \in {w \in vms : power[w] \in {"Paused", "Running"}}}

AsyncMapSettled_failFast(tasks) ==
  \/ \A x \in DOMAIN tasks : tasks[x] \in {"none", "ok", "skipped", "failed"}
  \/ \E x \in DOMAIN tasks : tasks[x] = "failed"

\* asyncMapSettled answers when every item has settled
AsyncMapSettled(tasks) ==
  \A x \in DOMAIN tasks : tasks[x] \in {"none", "ok", "skipped", "failed"}

\* asyncMap over callbacks that catch their errors answers when all have run
AsyncMapDone(tasks) ==
  \A x \in DOMAIN tasks : tasks[x] \in {"none", "ok", "failed"}

RegistersPlug_never(ok) == FALSE

\* the onFailure registration of PBD.plug follows the awaited PBD.unplug
RegistersPlug(ok) == ok

FallsBackToHard_always(ok) == TRUE

\* try { VM.clean_shutdown } catch { VM.hard_shutdown }
FallsBackToHard(ok) == ~ok

RegistersStart_always(result) == TRUE

\* the onFailure registration of VM.start comes after the try/catch
RegistersStart(result) == result = "ok"

\* The body of a deferred function throws: golike-defer runs the onFailure
\* stack from its top.
Fail(call, error) ==
  [call EXCEPT !.pc = "compensating", !.error = error,
               !.next = Len(call.deferred), !.compFrom = Len(call.issued)]

IsPausedOf_never(call, v) == FALSE

\* runningVms.get(vmRef): the isPaused flag recorded by handleVbd
IsPausedOf(call, v) == \E x \in call.runningVms : x[1] = v /\ x[2]

AfterAction_stopOnError(next, ok) == IF ok THEN next - 1 ELSE 0

\* golike-defer goes on to the action below on the stack whether the action
\* it has just run succeeded or failed
AfterAction(next, ok) == next - 1

\* enableMaintenanceMode: SR.add_to_other_config (throws when the key is
\* already there), then the registration of its removal
EnableCall(c, vmsToShutdown) ==
  /\ c \in Enables
  /\ calls[c].pc = "idle"
  /\ \A d \in Enables : d < c => calls[d].pc # "idle"
  /\ LET cs == Started(calls, c)
         ok == otherConfig = <<>>
         c1 == [cs[c] EXCEPT !.vmsToShutdown = vmsToShutdown,
                             !.state = NewState(c),
                             !.issued = <<Issue("SR.add_to_other_config", "sr", ok)>>]
     IN IF ok
        THEN /\ otherConfig' = JSONstringify(NewState(c))
             /\ calls' = [cs EXCEPT ![c] = [c1 EXCEPT !.pc = "discover",
                                                     !.deferred = <<RemoveKeyAction>>]]
        ELSE /\ calls' = [cs EXCEPT ![c] =
                            Fail([c1 EXCEPT !.deferred = DeferredAtConflict], "Conflict")]
             /\ UNCHANGED otherConfig
  /\ UNCHANGED <<vmPower, pbdAttached, failures, xapiVars, importVars>>

\* The VMs with a disk on the SR are listed and vmsToShutdown is checked.
Discover(c) ==
  /\ c \in Enables
  /\ calls[c].pc = "discover"
  /\ LET running == RunningVms(vmPower)
         runningVmUuids == {VmUuid[x[1]] : x \in running}
         c1 == [calls[c] EXCEPT !.runningVms = running]
     IN calls' = [calls EXCEPT ![c] =
          IF VmsToShutdownOk(c1.vmsToShutdown, runningVmUuids)
          THEN [c1 EXCEPT !.pc = "vms",
                          !.state.hasShutdownVms = TRUE,
                          !.vmTask = [v \in VMs |->
                             IF \E x \in running : x[1] = v THEN "clean" ELSE "none"]]
          ELSE Fail(c1, "IncorrectState")]
  /\ UNCHANGED <<vmPower, pbdAttached, otherConfig, failures, xapiVars, importVars>>

\* One VM of asyncMapSettled(runningVms, ...): state.shutdownVms[uuid] =
\* isPaused, then VM.clean_shutdown
CleanShutdown(c, v) ==
  /\ c \in Enables
  /\ calls[c].vmTask[v] = "clean"
  /\ \E ok \in BOOLEAN :
       /\ Answer(ok, vmPower[v] # "Halted")
       /\ LET isPaused == IsPausedOf(calls[c], v)
              c1 == [calls[c] EXCEPT
                       !.state.shutdownVms = @ \cup {<<VmUuid[v], isPaused>>},
                       !.issued = Append(@, Issue("VM.clean_shutdown", v, ok))]
          IN IF ~FallsBackToHard(ok)
             THEN /\ vmPower' = [vmPower EXCEPT ![v] = "Halted"]
                  /\ calls' = [calls EXCEPT ![c] =
                       [c1 EXCEPT !.vmTask[v] = "ok",
                                  !.deferred = IF RegistersStart("ok")
                                               THEN Append(@, StartAction(v, isPaused))
                                               ELSE @]]
             ELSE /\ calls' = [calls EXCEPT ![c] = [c1 EXCEPT !.vmTask[v] = "hard"]]
                  /\ vmPower' = IF ok THEN [vmPower EXCEPT ![v] = "Halted"] ELSE vmPower
  /\ UNCHANGED <<pbdAttached, otherConfig, xapiVars, importVars>>

\* The catch branch: VM.hard_shutdown
HardShutdown(c, v) ==
  /\ c \in Enables
  /\ calls[c].vmTask[v] = "hard"
  /\ \E ok \in BOOLEAN :
       /\ Answer(ok, vmPower[v] # "Halted")
       /\ LET isPaused == IsPausedOf(calls[c], v)
              result == IF ok THEN "ok" ELSE "failed"
              c1 == [calls[c] EXCEPT
                       !.issued = Append(@, Issue("VM.hard_shutdown", v, ok)),
                       !.vmTask[v] = result,
                       !.deferred = IF RegistersStart(result)
                                    THEN Append(@, StartAction(v, isPaused))
                                    ELSE @]
          IN /\ calls' = [calls EXCEPT ![c] = c1]
             /\ vmPower' = IF ok THEN [vmPower EXCEPT ![v] = "Halted"] ELSE vmPower
  /\ UNCHANGED <<pbdAttached, otherConfig, xapiVars, importVars>>

\* asyncMapSettled over the VMs has answered
VmPhaseEnd(c) ==
  /\ c \in Enables
  /\ calls[c].pc = "vms"
  /\ AsyncMapSettled(calls[c].vmTask)
  /\ calls' = [calls EXCEPT ![c] =
       IF \E v \in VMs : calls[c].vmTask[v] = "failed"
       THEN Fail(calls[c], "VM.hard_shutdown")
       ELSE [calls[c] EXCEPT !.pc = "pbds",
                             !.state.hasUnpluggedPbds = TRUE,
                             !.pbdTask = [q \in PBDs |-> "todo"]]]
  /\ UNCHANGED <<vmPower, pbdAttached, otherConfig, failures, xapiVars, importVars>>

\* One PBD of asyncMapSettled(PBDs, ...): if currently_attached, its uuid is
\* pushed, PBD.unplug is called and PBD.plug is registered
Unplug(c, q) ==
  /\ c \in Enables
  /\ calls[c].pbdTask[q] = "todo"
  /\ IF ~pbdAttached[q]
     THEN /\ calls' = [calls EXCEPT ![c].pbdTask[q] = "skipped"]
          /\ UNCHANGED <<pbdAttached, failures>>
     ELSE \E ok \in BOOLEAN :
            /\ Answer(ok, TRUE)
            /\ LET c1 == [calls[c] EXCEPT
                            !.state.unpluggedPbds = Append(@, PbdUuid[q]),
                            !.issued = Append(@, Issue("PBD.unplug", q, ok))]
               IN IF ok
                  THEN /\ pbdAttached' = [pbdAttached EXCEPT ![q] = FALSE]
                       /\ calls' = [calls EXCEPT ![c] =
                            [c1 EXCEPT !.pbdTask[q] = "ok",
                                       !.deferred = IF RegistersPlug(ok)
                                                    THEN Append(@, PlugAction(q))
                                                    ELSE @]]
                  ELSE /\ calls' = [calls EXCEPT ![c] = [c1 EXCEPT !.pbdTask[q] = "failed"]]
                       /\ UNCHANGED pbdAttached
  /\ UNCHANGED <<vmPower, otherConfig, xapiVars, importVars>>

\* asyncMapSettled over the PBDs has answered
PbdPhaseEnd(c) ==
  /\ c \in Enables
  /\ calls[c].pc = "pbds"
  /\ AsyncMapSettled(calls[c].pbdTask)
  /\ calls' = [calls EXCEPT ![c] =
       IF \E q \in PBDs : calls[c].pbdTask[q] = "failed"
       THEN Fail(calls[c], "PBD.unplug")
       ELSE [calls[c] EXCEPT !.pc = "final"]]
  /\ UNCHANGED <<vmPower, pbdAttached, otherConfig, failures, xapiVars, importVars>>

\* setFieldEntry('SR', ref, 'other_config', OC_MAINTENANCE, JSON.stringify(state))
Finalize(c) ==
  /\ c \in Enables
  /\ calls[c].pc = "final"
  /\ \E ok \in BOOLEAN :
       /\ Answer(ok, TRUE)
       /\ LET c1 == [calls[c] EXCEPT
                       !.issued = Append(@, Issue("SR.set_other_config", "sr", ok))]
          IN IF ok
             THEN /\ otherConfig' = JSONstringify(c1.state)
                  /\ calls' = [calls EXCEPT ![c] = [c1 EXCEPT !.pc = "done"]]
             ELSE /\ calls' = [calls EXCEPT ![c] = Fail(c1, "setFieldEntry")]
                  /\ UNCHANGED otherConfig
  /\ UNCHANGED <<vmPower, pbdAttached, xapiVars, importVars>>

\* golike-defer runs the action on top of the onFailure stack; its own
\* failure is swallowed
Compensate(c) ==
  /\ c \in Enables
  /\ calls[c].pc = "compensating"
  /\ calls[c].next > 0
  /\ LET a == calls[c].deferred[calls[c].next]
         possible == CASE a.op = "SR.remove_from_other_config" -> otherConfig # <<>>
                       [] a.op = "VM.start" -> vmPower[a.target] = "Halted"
                       [] OTHER -> TRUE
     IN \E ok \in BOOLEAN :
          /\ Answer(ok, possible)
          /\ calls' = [calls EXCEPT ![c].next = AfterAction(@, ok),
                                    ![c].issued = Append(@, Issue(a.op, a.target, ok))]
          /\ otherConfig' = IF ok /\ a.op = "SR.remove_from_other_config"
                            THEN <<>> ELSE otherConfig
          /\ vmPower' = IF ok /\ a.op = "VM.start"
                        THEN [vmPower EXCEPT ![a.target] =
                                IF a.paused THEN "Paused" ELSE "Running"]
                        ELSE vmPower
          /\ pbdAttached' = IF ok /\ a.op = "PBD.plug"
                            THEN [pbdAttached EXCEPT ![a.target] = TRUE]
                            ELSE pbdAttached
  /\ UNCHANGED <<xapiVars, importVars>>

\* The stack is exhausted: the original error reaches the caller
Rethrow(c) ==
  /\ c \in Enables
  /\ calls[c].pc = "compensating"
  /\ calls[c].next = 0
  /\ calls' = [calls EXCEPT ![c].pc = "failed"]
  /\ UNCHANGED <<vmPower, pbdAttached, otherConfig, failures, xapiVars, importVars>>

\* disableMaintenanceMode: JSON.parse(other_config[OC_MAINTENANCE]), which
\* throws when there is no such key
DisableRead(c) ==
  /\ c \in Disables
  /\ calls[c].pc = "idle"
  /\ \A d \in Disables : d < c => calls[d].pc # "idle"
  /\ LET cs == Started(calls, c)
     IN calls' = [cs EXCEPT ![c] =
          IF otherConfig = <<>>
          THEN [cs[c] EXCEPT !.pc = "failed", !.error = "SyntaxError"]
          ELSE [cs[c] EXCEPT !.pc = "remove", !.state = JSONparse(otherConfig)]]
  /\ UNCHANGED <<vmPower, pbdAttached, otherConfig, failures, xapiVars, importVars>>

RemoveThrows_never(config) == FALSE

\* "will throw if not in maintenance mode": SR.remove_from_other_config of a
\* key that is not there
RemoveThrows(config) == config = <<>>

\* SR.remove_from_other_config, then asyncMap(state.unpluggedPbds, ...) starts
DisableRemove(c) ==
  /\ c \in Disables
  /\ calls[c].pc = "remove"
  /\ LET ok == ~RemoveThrows(otherConfig)
         c1 == [calls[c] EXCEPT
                  !.issued = Append(@, Issue("SR.remove_from_other_config", "sr", ok))]
     IN /\ otherConfig' = <<>>
        /\ calls' = [calls EXCEPT ![c] =
             IF ~ok
             THEN [c1 EXCEPT !.pc = "failed", !.error = "remove_from_other_config"]
             ELSE IF ~c1.state.hasUnpluggedPbds
             THEN [c1 EXCEPT !.pc = "failed", !.error = "TypeError"]
             ELSE [c1 EXCEPT !.pc = "plug",
                             !.pbdTask = [q \in PBDs |->
                                IF \E i \in 1..Len(c1.state.unpluggedPbds) :
                                     c1.state.unpluggedPbds[i] = PbdUuid[q]
                                THEN "todo" ELSE "none"]]]
  /\ UNCHANGED <<vmPower, pbdAttached, failures, xapiVars, importVars>>

\* One uuid of state.unpluggedPbds: PBD.plug(PBD.get_by_uuid(uuid)); an error
\* is pushed to errors
DisablePlug(c, q) ==
  /\ c \in Disables
  /\ calls[c].pc = "plug"
  /\ calls[c].pbdTask[q] = "todo"
  /\ \E ok \in BOOLEAN :
       /\ Answer(ok, TRUE)
       /\ calls' = [calls EXCEPT
            ![c].issued = Append(@, Issue("PBD.plug", PbdByUuid(PbdUuid[q]), ok)),
            ![c].pbdTask[q] = IF ok THEN "ok" ELSE "failed",
            ![c].errors = IF ok THEN @ ELSE Append(@, <<"PBD.plug", q>>)]
       /\ pbdAttached' = IF ok THEN [pbdAttached EXCEPT ![q] = TRUE] ELSE pbdAttached
  /\ UNCHANGED <<vmPower, otherConfig, xapiVars, importVars>>

\* asyncMap over the PBDs has answered: asyncMap(Object.entries(
\* state.shutdownVms), ...) starts
DisablePlugEnd(c) ==
  /\ c \in Disables
  /\ calls[c].pc = "plug"
  /\ AsyncMapDone(calls[c].pbdTask)
  /\ calls' = [calls EXCEPT ![c] =
       IF ~calls[c].state.hasShutdownVms
       THEN [calls[c] EXCEPT !.pc = "failed", !.error = "TypeError"]
       ELSE [calls[c] EXCEPT !.pc = "start",
                             !.vmTask = [v \in VMs |->
                                IF \E x \in calls[c].state.shutdownVms : x[1] = VmUuid[v]
                                THEN "todo" ELSE "none"]]]
  /\ UNCHANGED <<vmPower, pbdAttached, otherConfig, failures, xapiVars, importVars>>

\* One entry of state.shutdownVms: VM.start(VM.get_by_uuid(uuid), isPaused,
\* true); an error is pushed to errors
DisableStart(c, v) ==
  /\ c \in Disables
  /\ calls[c].pc = "start"
  /\ calls[c].vmTask[v] = "todo"
  /\ \E ok \in BOOLEAN :
       /\ Answer(ok, vmPower[v] = "Halted")
       /\ LET isPaused == \E x \in calls[c].state.shutdownVms :
                             x[1] = VmUuid[v] /\ x[2]
          IN /\ calls' = [calls EXCEPT
                  ![c].issued = Append(@, Issue("VM.start", VmByUuid(VmUuid[v]), ok)),
                  ![c].vmTask[v] = IF ok THEN "ok" ELSE "failed",
                  ![c].errors = IF ok THEN @ ELSE Append(@, <<"VM.start", v>>)]
             /\ vmPower' = IF ok
                           THEN [vmPower EXCEPT ![v] =
                                   IF isPaused THEN "Paused" ELSE "Running"]
                           ELSE vmPower
  /\ UNCHANGED <<pbdAttached, otherConfig, xapiVars, importVars>>

DisableOutcome_silent(errors) == "none"

\* if (errors.length !== 0) throw new AggregateError(errors)
DisableOutcome(errors) == IF Len(errors) # 0 THEN "AggregateError" ELSE "none"

\* The two loops have answered: disableMaintenanceMode throws or returns
DisableEnd(c) ==
  /\ c \in Disables
  /\ calls[c].pc = "start"
  /\ AsyncMapDone(calls[c].vmTask)
  /\ calls' = [calls EXCEPT ![c] =
       IF DisableOutcome(calls[c].errors) # "none"
       THEN [calls[c] EXCEPT !.pc = "failed", !.error = DisableOutcome(calls[c].errors)]
       ELSE [calls[c] EXCEPT !.pc = "done"]]
  /\ UNCHANGED <<vmPower, pbdAttached, otherConfig, failures, xapiVars, importVars>>

SrNext ==
  \/ \E c \in Enables, vmsToShutdown \in SUBSET {VmUuid[v] : v \in VMs} :
       EnableCall(c, vmsToShutdown)
  \/ \E c \in Enables : Discover(c)
  \/ \E c \in Enables, v \in VMs : CleanShutdown(c, v)
  \/ \E c \in Enables, v \in VMs : HardShutdown(c, v)
  \/ \E c \in Enables : VmPhaseEnd(c)
  \/ \E c \in Enables, q \in PBDs : Unplug(c, q)
  \/ \E c \in Enables : PbdPhaseEnd(c)
  \/ \E c \in Enables : Finalize(c)
  \/ \E c \in Enables : Compensate(c)
  \/ \E c \in Enables : Rethrow(c)
  \/ \E c \in Disables : DisableRead(c)
  \/ \E c \in Disables : DisableRemove(c)
  \/ \E c \in Disables, q \in PBDs : DisablePlug(c, q)
  \/ \E c \in Disables : DisablePlugEnd(c)
  \/ \E c \in Disables, v \in VMs : DisableStart(c, v)
  \/ \E c \in Disables : DisableEnd(c)

\* The steps of the disables alone.
SrDisableNext ==
  \/ \E c \in Disables : DisableRead(c)
  \/ \E c \in Disables : DisableRemove(c)
  \/ \E c \in Disables, q \in PBDs : DisablePlug(c, q)
  \/ \E c \in Disables : DisablePlugEnd(c)
  \/ \E c \in Disables, v \in VMs : DisableStart(c, v)
  \/ \E c \in Disables : DisableEnd(c)

(***************************************************************************)
(* The disk import (importVdi).                                            *)
(***************************************************************************)
MaxChunks == 2

ImportCalls == {1}
VDI_FORMAT_VHD == "vhd"
Formats == {VDI_FORMAT_VHD, "raw"}
Sizes == {"n1", "n2"}

\* The ref VDI_create answers to each invocation.
VdiRefOf == <<"OpaqueRef:vdi1">>
VdiRefs == {VdiRefOf[i] : i \in ImportCalls}

\* A stream: its length property, and the currentSize of its VHD footer
\* when it has one.
Streams == [length : Sizes \cup {"undefined"}, currentSize : Sizes \cup {"undefined"}]

IdleImport ==
  [pc |-> "idle", format |-> "none", opt_size |-> "undefined",
   stream |-> [length |-> "undefined", currentSize |-> "undefined"],
   virtual_size |-> "undefined", vdiRef |-> "none",
   peeked |-> FALSE, consumed |-> 0,
   deferred |-> <<>>, next |-> 0, issued |-> <<>>, compFrom |-> 0,
   error |-> "none"]

NoVdi == [exists |-> FALSE, virtual_size |-> "undefined", content |-> 0]

ImportInit ==
  /\ imports = [i \in ImportCalls |-> IdleImport]
  /\ vdis = [r \in VdiRefs |-> NoVdi]

DestroyAction(ref) == [op |-> "VDI.destroy", target |-> ref, paused |-> FALSE]

\* if (virtual_size === undefined) if (format === VDI_FORMAT_VHD): the footer
\* is peeked
NeedsPeek(virtual_size, format) ==
  virtual_size = "undefined" /\ format = VDI_FORMAT_VHD

VirtualSize_fromLength(virtual_size, format, currentSize, length) ==
  IF virtual_size # "undefined" THEN virtual_size ELSE length

\* virtual_size when VDI_create is called: the option when it is given, else
\* footer.currentSize for a VHD and stream.length otherwise
VirtualSize(virtual_size, format, currentSize, length) ==
  IF virtual_size # "undefined" THEN virtual_size
  ELSE IF format = VDI_FORMAT_VHD THEN currentSize ELSE length

AssertSize_skipped(virtual_size) == TRUE

\* assert.notEqual(virtual_size, undefined)
AssertSize(virtual_size) == virtual_size # "undefined"

RegistersDestroy_never(ok) == FALSE

\* the onFailure registration of VDI.destroy follows the awaited VDI_create
RegistersDestroy(ok) == ok

\* importVdi is called: the size is the option, or stream.length for a format
\* that is not VHD (asserted), or the footer is to be peeked
ImportCall(i, format, opt_size, stream) ==
  /\ imports[i].pc = "idle"
  /\ LET c1 == [imports[i] EXCEPT !.format = format, !.opt_size = opt_size,
                                  !.stream = stream]
         size == VirtualSize(opt_size, format, "undefined", stream.length)
     IN imports' = [imports EXCEPT ![i] =
          IF NeedsPeek(opt_size, format)
          THEN [c1 EXCEPT !.pc = "peek"]
          ELSE IF opt_size = "undefined" /\ ~AssertSize(size)
          THEN Fail(c1, "AssertionError")
          ELSE [c1 EXCEPT !.pc = "create", !.virtual_size = size]]
  /\ UNCHANGED <<vdis, xapiVars, srVars>>

\* await peekFooterFromStream(stream): the footer is read and put back, or
\* the stream has no footer to read
PeekFooter(i) ==
  /\ imports[i].pc = "peek"
  /\ \E ok \in BOOLEAN :
       /\ ok => imports[i].stream.currentSize # "undefined"
       /\ LET c == imports[i]
              c1 == [c EXCEPT !.issued = Append(@, Issue("peekFooterFromStream", "stream", ok))]
          IN imports' = [imports EXCEPT ![i] =
               IF ok
               THEN [c1 EXCEPT !.pc = "create", !.peeked = TRUE,
                               !.virtual_size = VirtualSize(c.opt_size, c.format,
                                                   c.stream.currentSize, c.stream.length)]
               ELSE Fail(c1, "peekFooterFromStream")]
  /\ UNCHANGED <<vdis, xapiVars, srVars>>

\* await this.VDI_create({ ..., SR: ref, virtual_size }), then the
\* registration of VDI.destroy; VDI_importContent is called
CreateVdi(i) ==
  /\ imports[i].pc = "create"
  /\ \E ok \in BOOLEAN :
       LET c == imports[i]
           ref == VdiRefOf[i]
           c1 == [c EXCEPT !.issued = Append(@, Issue("VDI.create", "sr", ok))]
       IN IF ok
          THEN /\ vdis' = [vdis EXCEPT ![ref] =
                    [exists |-> TRUE, virtual_size |-> c.virtual_size, content |-> 0]]
               /\ imports' = [imports EXCEPT ![i] =
                    [c1 EXCEPT !.pc = "import", !.vdiRef = ref,
                               !.deferred = IF RegistersDestroy(ok)
                                            THEN Append(@, DestroyAction(ref))
                                            ELSE @]]
          ELSE /\ imports' = [imports EXCEPT ![i] = Fail(c1, "VDI.create")]
               /\ UNCHANGED vdis
  /\ UNCHANGED <<xapiVars, srVars>>

\* VDI_importContent(vdiRef, stream, { format }) reads one more chunk of the
\* stream into the VDI, or fails
ImportContent(i) ==
  /\ imports[i].pc = "import"
  /\ \E ok \in BOOLEAN :
       LET c == imports[i]
       IN IF ok
          THEN /\ c.consumed < MaxChunks
               /\ imports' = [imports EXCEPT ![i].consumed = @ + 1]
               /\ vdis' = [vdis EXCEPT ![c.vdiRef].content = @ + 1]
          ELSE /\ imports' = [imports EXCEPT ![i] =
                    Fail([c EXCEPT !.issued =
                            Append(@, Issue("VDI.importContent", c.vdiRef, FALSE))],
                         "VDI.importContent")]
               /\ UNCHANGED vdis
  /\ UNCHANGED <<xapiVars, srVars>>

\* VDI_importContent has answered: return vdiRef
ImportReturn(i) ==
  /\ imports[i].pc = "import"
  /\ imports[i].consumed = MaxChunks
  /\ imports' = [imports EXCEPT
       ![i].pc = "done",
       ![i].issued = Append(@, Issue("VDI.importContent", imports[i].vdiRef, TRUE))]
  /\ UNCHANGED <<vdis, xapiVars, srVars>>

\* golike-defer runs the action on top of the onFailure stack of importVdi
ImportCompensate(i) ==
  /\ imports[i].pc = "compensating"
  /\ imports[i].next > 0
  /\ LET a == imports[i].deferred[imports[i].next]
     IN \E ok \in BOOLEAN :
          /\ imports' = [imports EXCEPT
               ![i].next = AfterAction(@, ok),
               ![i].issued = Append(@, Issue(a.op, a.target, ok))]
          /\ vdis' = IF ok THEN [vdis EXCEPT ![a.target].exists = FALSE] ELSE vdis
  /\ UNCHANGED <<xapiVars, srVars>>

\* The stack is exhausted: the error of importVdi reaches the caller
ImportRethrow(i) ==
  /\ imports[i].pc = "compensating"
  /\ imports[i].next = 0
  /\ imports' = [imports EXCEPT ![i].pc = "failed"]
  /\ UNCHANGED <<vdis, xapiVars, srVars>>

ImportNext ==
  \/ \E i \in ImportCalls, format \in Formats, opt_size \in Sizes \cup {"undefined"},
        stream \in Streams : ImportCall(i, format, opt_size, stream)
  \/ \E i \in ImportCalls : PeekFooter(i)
  \/ \E i \in ImportCalls : CreateVdi(i)
  \/ \E i \in ImportCalls : ImportContent(i)
  \/ \E i \in ImportCalls : ImportReturn(i)
  \/ \E i \in ImportCalls : ImportCompensate(i)
  \/ \E i \in ImportCalls : ImportRethrow(i)

(***************************************************************************)
(* Specifications.                                                         *)
(***************************************************************************)
\* The SR at rest, for the specification of the watcher bridge.
SrQuiet ==
  /\ vmPower = [v \in VMs |-> "Running"]
  /\ pbdAttached = [q \in PBDs |-> TRUE]
  /\ otherConfig = <<>>
  /\ calls = [c \in Calls |-> IdleCall]
  /\ failures = 0

Init == XapiInit /\ SrQuiet /\ ImportInit
Spec == Init /\ [][Next]_vars

InitSr == XapiInit /\ SrInit /\ ImportInit
SpecSr == InitSr /\ [][SrNext]_vars

InitSrRace == XapiInit /\ SrRaceInit /\ ImportInit
SpecSrRace == InitSrRace /\ [][SrNext]_vars

InitSrDisable == XapiInit /\ SrDisableInit /\ ImportInit
SpecSrDisable == InitSrDisable /\ [][SrDisableNext]_vars

InitImport == XapiInit /\ SrQuiet /\ ImportInit
SpecImport == InitImport /\ [][ImportNext]_vars

(***************************************************************************)
(* Properties of the watcher bridge (specification Spec).                  *)
(***************************************************************************)
Handles == 1..Len(promises)
ObjectHandles == {h \in Handles : promises[h].kind = "object"}
TaskHandles == {h \in Handles : promises[h].kind = "task"}
Pending(h) == promises[h].state = "pending"
Registered(h) ==
  IF promises[h].kind = "object"
  THEN objectWatchers[promises[h].key] = h
  ELSE taskWatchers[promises[h].key] = h

\* C1: each watcher table holds at most one pending watch per key, and a
\* pending watch is the entry of its table, so that every wait issued on the
\* key while it is pending is given that same promise.
C1_OnePendingWatchPerKey ==
  /\ \A h1, h2 \in Handles :
       (/\ Pending(h1) /\ Pending(h2)
        /\ promises[h1].kind = promises[h2].kind
        /\ promises[h1].key = promises[h2].key) => h1 = h2
  /\ \A h \in Handles : Pending(h) => Registered(h)

\* A wait on a key whose watch is pending has just been given the promise of
\* that watch, while another watch of the same table has already resolved.
C1_Witness ==
  /\ lastReuse # 0
  /\ Pending(lastReuse) /\ Registered(lastReuse)
  /\ \E h \in Handles : /\ promises[h].kind = promises[lastReuse].kind
                         /\ promises[h].state = "resolved"

\* C2: a task watch settles at most once; it is resolved only by a
\* notification of its reference with status success, with the result of
\* that notification; while it has not settled it stays in the task table,
\* and once settled it is no longer there.
C2_TaskWatchSettlesOnce ==
  \A h \in TaskHandles :
    LET p == promises[h]
    IN /\ p.settles <= 1
       /\ Pending(h) => (p.settles = 0 /\ taskWatchers[p.key] = h)
       /\ p.state = "resolved" =>
            /\ p.cause.status = "success"
            /\ Ref(p.cause.obj) = p.key
            /\ p.value = p.cause.result
       /\ ~Pending(h) => (p.settles = 1 /\ taskWatchers[p.key] # h)

\* A task watch has resolved and a later batch has spoken of its task again.
C2_Witness ==
  \E h \in TaskHandles :
    /\ promises[h].state = "resolved"
    /\ promises[h].value \in Results
    /\ \E n \in lastObjs : Ref(n) = promises[h].key
    /\ \E h2 \in TaskHandles : h2 > h /\ promises[h2].key = promises[h].key

\* C3: a task watch is rejected only by a notification of its reference with
\* status failure (which never resolves it), with an error whose code is the
\* first element of error_info and whose params are the other elements, and
\* it is then removed from the task table.
C3_FailureRejects ==
  \A h \in TaskHandles :
    LET p == promises[h]
    IN /\ p.state = "rejected" =>
            /\ p.cause.status = "failure"
            /\ Ref(p.cause.obj) = p.key
            /\ p.value.code = p.cause.error_info[1]
            /\ p.value.params = SubSeq(p.cause.error_info, 2, Len(p.cause.error_info))
            /\ taskWatchers[p.key] # h
       /\ p.cause.status = "failure" => p.state = "rejected"

C3_Witness ==
  \E h \in TaskHandles :
    /\ promises[h].state = "rejected"
    /\ promises[h].value.params = <<"p1", "p2">>

\* C4: a batch resolves and removes the object watch under the id and the
\* one under the ref of each of its objects, each with that object; every
\* other object watch is left as it is; no object watch is resolved twice.
C4_BatchResolvesItsKeys ==
  /\ [](\A h \in ObjectHandles : promises[h].settles <= 1)
  /\ [][\A k \in Keys :
          LET h == objectWatchers[k]
          IN h # 0 =>
               IF \E n \in lastObjs' : k \in {Id(n), Ref(n)}
               THEN /\ objectWatchers'[k] = 0
                    /\ promises'[h].state = "resolved"
                    /\ promises'[h].settles = 1
                    /\ promises'[h].value = promises'[h].cause
                    /\ promises'[h].cause.obj \in lastObjs'
                    /\ k \in {Id(promises'[h].cause.obj), Ref(promises'[h].cause.obj)}
               ELSE /\ objectWatchers'[k] = h
                    /\ promises'[h].state = "pending"
                    /\ promises'[h].settles = 0]_vars

\* One batch has resolved the watch under the id and the watch under the ref
\* of an object, and has left the watch of another key pending.
C4_Witness ==
  \E h1, h2, h3 \in ObjectHandles :
    \E n \in lastObjs :
      /\ promises[h1].key = Id(n) /\ promises[h1].state = "resolved"
      /\ promises[h2].key = Ref(n) /\ promises[h2].state = "resolved"
      /\ promises[h1].value = promises[h2].value
      /\ Pending(h3) /\ objectWatchers[promises[h3].key] = h3

\* C5: task.destroy is called for a task of _createTask at most once, only
\* after a terminal status of the task has been notified, and it has been
\* called once the callback queued by that notification has run, after a
\* success and after a failure, whoever awaits the task; what _createTask
\* returned is resolved as soon as the task object is known, whether or not
\* task.destroy has answered.
C5_DestroyAfterTerminal ==
  \A t \in Tasks :
    /\ destroyCalls[t] <= 1
    /\ destroyCalls[t] >= 1 => t \in terminalSeen
    /\ (created[t].stage = "returned" /\ t \in terminalSeen /\ t \notin reactions)
         => destroyCalls[t] = 1
    /\ (created[t].stage = "returned" /\ t \in materialized)
         => (created[t].ret = 0 \/ promises[created[t].ret].state = "resolved")

\* The task has failed, task.destroy has
\* been called and has not answered, and the caller has its task object.
C5_Witness ==
  \E t \in Tasks :
    /\ destroyCalls[t] = 1
    /\ t \in destroyInFlight
    /\ \E h \in TaskHandles :
         /\ promises[h].key = Ref(t)
         /\ promises[h].state = "rejected"
    /\ created[t].ret # 0
    /\ promises[created[t].ret].state = "resolved"

\* C23: a task watch is settled only by a notification of its task with a
\* terminal status that is processed while the watch is in the task table;
\* a _watchTask made when the table has no entry for the ref, also after a
\* terminal notification of that task has been processed, registers a new
\* pending watch, which nothing but a later terminal notification of the
\* same ref settles: no past notification is replayed.
C23_LateWatchWaitsForNextNotification ==
  /\ [][\A r \in Refs :
          (taskWatchers[r] = 0 /\ taskWatchers'[r] # 0) =>
            LET h == taskWatchers'[r]
            IN /\ h = Len(promises) + 1
               /\ promises'[h].kind = "task"
               /\ promises'[h].key = r
               /\ promises'[h].state = "pending"
               /\ promises'[h].settles = 0]_vars
  /\ [][\A h \in TaskHandles :
          (Pending(h) /\ promises'[h].state # "pending") =>
            /\ taskWatchers[promises[h].key] = h
            /\ taskWatchers'[promises[h].key] = 0
            /\ promises'[h].cause.obj \in lastObjs'
            /\ Ref(promises'[h].cause.obj) = promises[h].key
            /\ promises'[h].cause.status \in {"success", "failure"}]_vars

\* The watch of a task has been settled and removed; a later _watchTask of
\* the same ref has registered a new watch, and a batch that speaks of the
\* task has since been processed and has left that watch pending.
C23_Witness ==
  \E h1, h2 \in TaskHandles :
    /\ h1 < h2
    /\ promises[h1].key = promises[h2].key
    /\ ~Pending(h1)
    /\ Pending(h2) /\ Registered(h2)
    /\ \E t \in terminalSeen \cap lastObjs : Ref(t) = promises[h2].key

(***************************************************************************)
(* Properties of the maintenance mode (specifications SpecSr, SpecSrRace). *)
(***************************************************************************)
\* The remote calls of a failed enable: those of its body, then those of its
\* compensation.
Failing(c) == calls[c].pc \in {"compensating", "failed"}
BodyCalls(c) == SubSeq(calls[c].issued, 1, calls[c].compFrom)
CompCalls(c) == SubSeq(calls[c].issued, calls[c].compFrom + 1, Len(calls[c].issued))
Did(log, op, target) ==
  \E i \in 1..Len(log) : log[i].op = op /\ log[i].target = target /\ log[i].ok
ShutDownBy(c) ==
  {v \in VMs : \/ Did(calls[c].issued, "VM.clean_shutdown", v)
               \/ Did(calls[c].issued, "VM.hard_shutdown", v)}
UnpluggedBy(c) == {q \in PBDs : Did(calls[c].issued, "PBD.unplug", q)}
RunningUuids(c) == {VmUuid[x[1]] : x \in calls[c].runningVms}
Discovered(c) ==
  calls[c].pc \notin {"idle", "unused", "discover"} /\ calls[c].error # "Conflict"

\* C6: an enable that finds the maintenance key fails with Conflict, and that
\* call makes no other remote call: no shutdown, start, unplug or plug, and
\* no compensating action.
C6_ConflictTouchesNothing ==
  /\ [](\A c \in Enables :
          calls[c].error = "Conflict" =>
            /\ Failing(c)
            /\ calls[c].issued = <<Issue("SR.add_to_other_config", "sr", FALSE)>>
            /\ calls[c].deferred = <<>>
            /\ \A v \in VMs : calls[c].vmTask[v] = "none"
            /\ \A q \in PBDs : calls[c].pbdTask[q] = "none")
  /\ [][\A c \in Enables :
          (calls[c].pc = "idle" /\ calls'[c].pc # "idle" /\ otherConfig # <<>>)
            => /\ calls'[c].error = "Conflict"
               /\ UNCHANGED <<vmPower, pbdAttached, otherConfig>>]_vars

\* An enable called on an SR under maintenance has returned its Conflict.
C6_Witness ==
  \E c \in Enables :
    /\ calls[c].error = "Conflict"
    /\ calls[c].pc = "failed"
    /\ otherConfig # <<>>
    /\ \E v \in VMs : vmPower[v] = "Halted"

\* C7: at most one enable is between its successful SR.add_to_other_config
\* and its completion (success, or the end of its compensation).
InCriticalSection(c) ==
  /\ calls[c].issued # <<>>
  /\ calls[c].issued[1].ok
  /\ \/ calls[c].pc \in {"discover", "vms", "pbds", "final"}
     \/ calls[c].pc = "compensating" /\ calls[c].next > 0

C7_OneEnableAtATime ==
  Cardinality({c \in Enables : InCriticalSection(c)}) <= 1

\* C8, as claimed: a vmsToShutdown that differs from the set of running VMs,
\* by omitting one or by adding a VM that is not running, makes enable fail
\* with IncorrectState before any shutdown or unplug.
C8_AnyMismatchFails ==
  \A c \in Enables :
    (Discovered(c) /\ calls[c].vmsToShutdown # RunningUuids(c))
      => /\ calls[c].error = "IncorrectState"
         /\ ShutDownBy(c) = {} /\ UnpluggedBy(c) = {}

\* C8, amended: enable fails with IncorrectState exactly when vmsToShutdown
\* omits a running (Running or Paused) VM, and then no shutdown and no unplug
\* has been called; a vmsToShutdown that only adds other VMs is accepted.
C8_OmittedRunningVmFails ==
  \A c \in Enables :
    Discovered(c) =>
      /\ calls[c].error = "IncorrectState"
           <=> ~(RunningUuids(c) \subseteq calls[c].vmsToShutdown)
      /\ calls[c].error = "IncorrectState" =>
           /\ Failing(c)
           /\ \A i \in 1..calls[c].compFrom :
                calls[c].issued[i].op \notin
                  {"VM.clean_shutdown", "VM.hard_shutdown", "PBD.unplug"}
           /\ \A v \in VMs : calls[c].vmTask[v] = "none"
           /\ \A q \in PBDs : calls[c].pbdTask[q] = "none"

\* An enable that omitted a running VM has failed, the VMs still running.
C8_Witness ==
  \E c \in Enables :
    /\ calls[c].pc = "failed"
    /\ calls[c].error = "IncorrectState"
    /\ \E u \in RunningUuids(c) : u \notin calls[c].vmsToShutdown
    /\ \A x \in calls[c].runningVms : vmPower[x[1]] # "Halted"

\* C9: when enable has failed on a PBD.unplug and every compensating action
\* has succeeded, each PBD it unplugged has been plugged again, each VM it
\* shut down has been started again with the pause flag it was found with,
\* the key has been removed, and, no other call having run meanwhile, power
\* states, attachments and metadata are what they were before the call.
C9_UnplugFailureRollsBack ==
  \A c \in Enables :
    (/\ calls[c].pc = "failed"
     /\ calls[c].error = "PBD.unplug"
     /\ \A i \in 1..Len(CompCalls(c)) : CompCalls(c)[i].ok)
    => /\ \A q \in UnpluggedBy(c) : Did(CompCalls(c), "PBD.plug", q)
       /\ \A v \in ShutDownBy(c) :
            /\ Did(CompCalls(c), "VM.start", v)
            /\ \E i \in 1..Len(calls[c].deferred) :
                 calls[c].deferred[i] = StartAction(v, IsPausedOf(calls[c], v))
       /\ Did(CompCalls(c), "SR.remove_from_other_config", "sr")
       /\ calls[c].alone =>
            /\ vmPower = calls[c].preVm
            /\ pbdAttached = calls[c].prePbd
            /\ otherConfig = <<>>

\* An unplug has failed after another had succeeded and after a paused VM had
\* been shut down; the compensation has succeeded and enable has returned.
C9_Witness ==
  \E c \in Enables :
    /\ calls[c].pc = "failed"
    /\ calls[c].error = "PBD.unplug"
    /\ calls[c].alone
    /\ \A i \in 1..Len(CompCalls(c)) : CompCalls(c)[i].ok
    /\ UnpluggedBy(c) # {}
    /\ \E v \in ShutDownBy(c) : calls[c].preVm[v] = "Paused" /\ vmPower[v] = "Paused"

\* C10: the compensating actions of a failing enable run in the reverse order
\* of their registration: the plugs, then the starts, then the removal of
\* the key; each undoes a step of the body that had succeeded; all of them
\* have run when enable returns.
CompRank(op) ==
  CASE op = "PBD.plug" -> 0
    [] op = "VM.start" -> 1
    [] OTHER -> 2

C10_ReverseOrderCompensation ==
  \A c \in Enables :
    Failing(c) =>
      LET comp == CompCalls(c)
          body == BodyCalls(c)
          d == calls[c].deferred
      IN /\ Len(comp) = Len(d) - calls[c].next
         /\ \A i \in 1..Len(comp) :
              /\ comp[i].op = d[Len(d) - i + 1].op
              /\ comp[i].target = d[Len(d) - i + 1].target
              /\ CASE comp[i].op = "PBD.plug" -> Did(body, "PBD.unplug", comp[i].target)
                   [] comp[i].op = "VM.start" ->
                        \/ Did(body, "VM.clean_shutdown", comp[i].target)
                        \/ Did(body, "VM.hard_shutdown", comp[i].target)
                   [] OTHER -> Did(body, "SR.add_to_other_config", "sr")
         /\ \A i, j \in 1..Len(comp) :
              i < j => CompRank(comp[i].op) <= CompRank(comp[j].op)
         /\ calls[c].pc = "failed" => calls[c].next = 0

\* A failed enable has plugged two PBDs, then started two VMs, then removed
\* the key.
C10_Witness ==
  \E c \in Enables :
    /\ calls[c].pc = "failed"
    /\ Len(CompCalls(c)) = 5
    /\ CompCalls(c)[1].op = "PBD.plug" /\ CompCalls(c)[2].op = "PBD.plug"
    /\ CompCalls(c)[3].op = "VM.start" /\ CompCalls(c)[4].op = "VM.start"
    /\ CompCalls(c)[5].op = "SR.remove_from_other_config"

\* C11: when a compensating action of a failing enable fails, the actions
\* below it on the stack are still run, and the error enable returns is the
\* one its body failed with, never the error of a compensating action.
ErrorOp(error) ==
  CASE error = "Conflict" -> "SR.add_to_other_config"
    [] error = "setFieldEntry" -> "SR.set_other_config"
    [] OTHER -> error

C11_CompensationFailureKeepsCause ==
  /\ [](\A c \in Enables :
          calls[c].pc = "failed" =>
            /\ Len(CompCalls(c)) = Len(calls[c].deferred)
            /\ \A i \in 1..Len(calls[c].deferred) :
                 CompCalls(c)[Len(calls[c].deferred) - i + 1].op
                   = calls[c].deferred[i].op
            /\ calls[c].error \notin {"VM.start", "PBD.plug",
                                      "SR.remove_from_other_config", "none"}
            /\ \/ calls[c].error = "IncorrectState"
               \/ \E i \in 1..Len(BodyCalls(c)) :
                    /\ BodyCalls(c)[i].op = ErrorOp(calls[c].error)
                    /\ ~BodyCalls(c)[i].ok)
  /\ [][\A c \in Enables :
          calls[c].pc = "compensating" => calls'[c].error = calls[c].error]_vars

\* A compensating plug has failed, the start and the removal of the key have
\* been called after it, and enable has returned the error of its unplug.
C11_Witness ==
  \E c \in Enables :
    /\ calls[c].pc = "failed"
    /\ calls[c].error = "PBD.unplug"
    /\ Len(CompCalls(c)) >= 3
    /\ CompCalls(c)[1].op = "PBD.plug" /\ ~CompCalls(c)[1].ok
    /\ \E i \in 2..Len(CompCalls(c)) : CompCalls(c)[i].op = "VM.start"
    /\ CompCalls(c)[Len(CompCalls(c))].op = "SR.remove_from_other_config"

\* C12: when an enable that had written its placeholder returns its failure,
\* every compensating action it registered has been called and has answered,
\* no call of its body is still in flight, and it makes no remote call and
\* registers no action afterwards.
C12_CompensationEndsBeforeFailure ==
  /\ [](\A c \in Enables :
          (calls[c].pc = "failed" /\ calls[c].issued[1].ok) =>
            /\ calls[c].next = 0
            /\ Len(CompCalls(c)) = Len(calls[c].deferred)
            /\ Len(calls[c].deferred) >= 1
            /\ \A v \in VMs : calls[c].vmTask[v] \notin {"clean", "hard"}
            /\ \A q \in PBDs : calls[c].pbdTask[q] # "todo")
  /\ [][\A c \in Enables :
          calls[c].pc = "failed" =>
            /\ calls'[c].pc = "failed"
            /\ calls'[c].issued = calls[c].issued
            /\ calls'[c].deferred = calls[c].deferred]_vars

\* Both shutdowns of a VM have failed while the other VM was shut down; the
\* other VM has been started again and the key removed when enable returns.
C12_Witness ==
  \E c \in Enables :
    /\ calls[c].pc = "failed"
    /\ calls[c].error = "VM.hard_shutdown"
    /\ \E v \in VMs : calls[c].vmTask[v] = "failed"
    /\ \E v \in VMs : calls[c].vmTask[v] = "ok" /\ Did(CompCalls(c), "VM.start", v)
    /\ Did(CompCalls(c), "SR.remove_from_other_config", "sr")

\* C13: an enable that succeeds has run no compensating action (no VM.start,
\* no PBD.plug, no removal of the key), and the state it stores under the
\* key has one uuid -> isPaused entry for each VM with a disk on the SR that
\* was Running or Paused (true iff Paused) and the uuids of the PBDs that
\* were attached when the PBD loop looked at them, each once.
DependentVms == {VbdVM[b] : b \in UNION {VdiVBDs[d] : d \in SrVDIs}}

C13_SuccessStoresCompleteState ==
  /\ [](\A c \in Enables :
          calls[c].pc = "done" =>
            LET st == calls[c].state
                pbds == {st.unpluggedPbds[i] : i \in 1..Len(st.unpluggedPbds)}
            IN /\ calls[c].next = 0 /\ calls[c].compFrom = 0
               /\ \A i \in 1..Len(calls[c].issued) :
                    calls[c].issued[i].op \notin
                      {"VM.start", "PBD.plug", "SR.remove_from_other_config"}
               /\ st.hasShutdownVms /\ st.hasUnpluggedPbds
               /\ st.shutdownVms = {<<VmUuid[x[1]], x[2]>> : x \in calls[c].runningVms}
               /\ \A x, y \in st.shutdownVms : x[1] = y[1] => x = y
               /\ pbds = {PbdUuid[q] : q \in {r \in PBDs : calls[c].pbdTask[r] = "ok"}}
               /\ Len(st.unpluggedPbds) = Cardinality(pbds)
               /\ calls[c].alone =>
                    /\ st.shutdownVms =
                         {<<VmUuid[v], calls[c].preVm[v] = "Paused">> :
                            v \in {w \in DependentVms :
                                     calls[c].preVm[w] \in {"Running", "Paused"}}}
                    /\ pbds = {PbdUuid[q] : q \in {r \in PBDs : calls[c].prePbd[r]}})
  /\ [][\A c \in Enables :
          (calls[c].pc = "final" /\ calls'[c].pc = "done") =>
            /\ otherConfig' # <<>>
            /\ JSONparse(otherConfig') = calls'[c].state]_vars

\* An enable has succeeded on an SR with a paused VM, a halted VM and a PBD
\* that was not attached; its state is under the key.
C13_Witness ==
  \E c \in Enables :
    /\ calls[c].pc = "done"
    /\ calls[c].alone
    /\ otherConfig = JSONstringify(calls[c].state)
    /\ calls[c].state.shutdownVms = {<<"uuidA", TRUE>>}
    /\ calls[c].preVm["vmB"] = "Halted"
    /\ calls[c].state.unpluggedPbds = <<"uuid1">>

\* C14: a disable that has read a complete state removes the key before any
\* PBD.plug or VM.start; it calls PBD.plug once for every recorded PBD and
\* VM.start once for every recorded VM however many of these calls fail; it
\* throws an AggregateError holding one error per failed call when a call
\* has failed and returns normally otherwise; it never writes the key back.
Complete(c) ==
  /\ calls[c].state.hasUnpluggedPbds /\ calls[c].state.hasShutdownVms
  /\ calls[c].issued # <<>>
  /\ calls[c].issued[1].ok

Attempts(c, op, target) ==
  Cardinality({i \in 1..Len(calls[c].issued) :
                 calls[c].issued[i].op = op /\ calls[c].issued[i].target = target})

RecordedPbds(c) ==
  {PbdByUuid(calls[c].state.unpluggedPbds[i]) :
     i \in 1..Len(calls[c].state.unpluggedPbds)}

RecordedVms(c) == {VmByUuid(x[1]) : x \in calls[c].state.shutdownVms}

C14_DisableIsBestEffort ==
  /\ [](\A c \in Disables :
          Complete(c) =>
            LET log == calls[c].issued
                failed == {i \in 1..Len(log) : ~log[i].ok}
                errors == calls[c].errors
            IN /\ log[1] = Issue("SR.remove_from_other_config", "sr", TRUE)
               /\ Len(errors) = Cardinality(failed)
               /\ {errors[i] : i \in 1..Len(errors)}
                    = {<<log[i].op, log[i].target>> : i \in failed}
               /\ \A q \in PBDs : Attempts(c, "PBD.plug", q) <= 1
               /\ \A v \in VMs : Attempts(c, "VM.start", v) <= 1
               /\ calls[c].alone => otherConfig = <<>>
               /\ calls[c].pc \in {"done", "failed"} =>
                    /\ \A q \in PBDs :
                         Attempts(c, "PBD.plug", q)
                           = IF q \in RecordedPbds(c) THEN 1 ELSE 0
                    /\ \A v \in VMs :
                         Attempts(c, "VM.start", v)
                           = IF v \in RecordedVms(c) THEN 1 ELSE 0
                    /\ calls[c].pc = "failed" <=> failed # {}
                    /\ calls[c].pc = "failed" => calls[c].error = "AggregateError")
  /\ [][\A c \in Disables :
          (Complete(c) /\ calls'[c].issued # calls[c].issued)
            => otherConfig' = otherConfig]_vars

\* A disable has failed two of its calls, a plug and a start, has made the
\* others, and has thrown; the key is gone.
C14_Witness ==
  \E c \in Disables :
    /\ Complete(c)
    /\ calls[c].pc = "failed"
    /\ Len(calls[c].errors) = 2
    /\ \E q \in PBDs : calls[c].pbdTask[q] = "failed"
    /\ \E v \in VMs : calls[c].vmTask[v] = "failed"
    /\ \E q \in PBDs : calls[c].pbdTask[q] = "ok"
    /\ otherConfig = <<>>

\* C15: of the disables that run together on an SR under maintenance, at most
\* one gets past SR.remove_from_other_config; each other one fails at its
\* read or at its removal and calls no PBD.plug and no VM.start, so that a
\* recorded PBD is plugged at most once and a recorded VM started at most
\* once.
PassedRemoval(c) == calls[c].issued # <<>> /\ calls[c].issued[1].ok

C15_OneDisablePasses ==
  /\ Cardinality({c \in Disables : PassedRemoval(c)}) <= 1
  /\ \A c \in Disables :
       ~PassedRemoval(c) =>
         /\ Len(calls[c].issued) <= 1
         /\ \A q \in PBDs : calls[c].pbdTask[q] = "none"
         /\ \A v \in VMs : calls[c].vmTask[v] = "none"
         /\ calls[c].pc \in {"done", "failed"} =>
              /\ calls[c].pc = "failed"
              /\ calls[c].error \in {"SyntaxError", "remove_from_other_config"}
  /\ \A q \in PBDs :
       Cardinality({c \in Disables : Attempts(c, "PBD.plug", q) > 0}) <= 1
  /\ \A v \in VMs :
       Cardinality({c \in Disables : Attempts(c, "VM.start", v) > 0}) <= 1
  /\ \A c \in Disables, q \in PBDs : Attempts(c, "PBD.plug", q) <= 1
  /\ \A c \in Disables, v \in VMs : Attempts(c, "VM.start", v) <= 1

\* Two disables had both read the state; one has removed the key and plugged
\* a PBD, the other has failed at its removal.
C15_Witness ==
  \E c, d \in Disables :
    /\ calls[c].state.hasUnpluggedPbds /\ calls[d].state.hasUnpluggedPbds
    /\ PassedRemoval(c)
    /\ \E q \in PBDs : Did(calls[c].issued, "PBD.plug", q)
    /\ calls[d].pc = "failed"
    /\ calls[d].error = "remove_from_other_config"

\* C16: an enable that succeeds on an SR in its normal state, followed by a
\* disable, gives back the situation before the enable: a VM that was
\* Running is started not paused, a VM that was Paused is started paused, a
\* VM that was Halted is neither shut down nor started, a PBD that was
\* attached is plugged, and the key is gone; when one plug fails, the key is
\* gone all the same and the AggregateError holds the error of that plug
\* and no other.
RoundTrip(c, d) ==
  /\ calls[c].pc = "done"
  /\ calls[d].pc \in {"done", "failed"}
  /\ calls[d].alone
  /\ Complete(d)
  /\ calls[d].state = calls[c].state

C16_EnableThenDisableRestores ==
  \A c \in Enables, d \in Disables :
    RoundTrip(c, d) =>
      LET pre == calls[c].preVm
          was == calls[c].prePbd
          errors == calls[d].errors
      IN /\ otherConfig = <<>>
         /\ \A v \in VMs :
              IF pre[v] = "Halted"
              THEN /\ \A e \in {c, d} : \A i \in 1..Len(calls[e].issued) :
                        calls[e].issued[i].target # v
                   /\ vmPower[v] = "Halted"
              ELSE /\ v \in ShutDownBy(c)
                   /\ Attempts(d, "VM.start", v) = 1
                   /\ Did(calls[d].issued, "VM.start", v) => vmPower[v] = pre[v]
         /\ \A q \in PBDs :
              /\ Attempts(d, "PBD.plug", q) = (IF was[q] THEN 1 ELSE 0)
              /\ Did(calls[d].issued, "PBD.plug", q) => pbdAttached[q]
         /\ errors = <<>> =>
              /\ calls[d].pc = "done"
              /\ vmPower = pre /\ pbdAttached = was
         /\ \A q \in PBDs :
              errors = <<<<"PBD.plug", q>>>> =>
                /\ calls[d].pc = "failed"
                /\ calls[d].error = "AggregateError"
                /\ vmPower = pre
                /\ pbdAttached = [was EXCEPT ![q] = FALSE]

\* The SR had a paused VM, a halted VM and two attached PBDs; enable has
\* succeeded, and the disable after it has started the VM paused and has
\* failed to plug one PBD.
C16_Witness ==
  \E c \in Enables, d \in Disables :
    /\ RoundTrip(c, d)
    /\ calls[c].preVm = [vmA |-> "Paused", vmB |-> "Halted"]
    /\ calls[c].prePbd = [pbd1 |-> TRUE, pbd2 |-> TRUE]
    /\ calls[d].errors = <<<<"PBD.plug", "pbd2">>>>
    /\ calls[d].pc = "failed"
    /\ vmPower["vmA"] = "Paused"
    /\ pbdAttached["pbd1"]

\* C20: VM.hard_shutdown is called for a VM only after the VM.clean_shutdown
\* of that VM has failed; the VM.start of a VM is registered, with the
\* isPaused flag the VM was found with, when and only when one of its two
\* shutdowns has succeeded; a VM whose two shutdowns fail makes enable fail,
\* and compensation does not start it.
StartRegistered(c, v) ==
  {i \in 1..Len(calls[c].deferred) :
     calls[c].deferred[i].op = "VM.start" /\ calls[c].deferred[i].target = v}

C20_HardAfterCleanStartAfterShutdown ==
  \A c \in Enables, v \in VMs :
    LET log == calls[c].issued
        d == calls[c].deferred
    IN /\ \A j \in 1..Len(log) :
            (log[j].op = "VM.hard_shutdown" /\ log[j].target = v) =>
              \E i \in 1..(j - 1) : log[i] = Issue("VM.clean_shutdown", v, FALSE)
       /\ Attempts(c, "VM.clean_shutdown", v) <= 1
       /\ Attempts(c, "VM.hard_shutdown", v) <= 1
       /\ Did(log, "VM.clean_shutdown", v) => Attempts(c, "VM.hard_shutdown", v) = 0
       /\ StartRegistered(c, v) # {} <=> v \in ShutDownBy(c)
       /\ Cardinality(StartRegistered(c, v)) <= 1
       /\ \A i \in StartRegistered(c, v) : d[i] = StartAction(v, IsPausedOf(calls[c], v))
       /\ calls[c].vmTask[v] = "failed" =>
            /\ log[Len(log) - Len(IF Failing(c) THEN CompCalls(c) ELSE <<>>)].op
                 \in {"VM.clean_shutdown", "VM.hard_shutdown"}
            /\ calls[c].pc \in {"vms", "compensating", "failed"}
            /\ calls[c].pc # "vms" => calls[c].error = "VM.hard_shutdown"
            /\ StartRegistered(c, v) = {}
            /\ Attempts(c, "VM.start", v) = 0

\* The clean shutdown of a paused VM has failed and its hard shutdown has
\* succeeded; enable has failed later and compensation has started the VM
\* paused.
C20_Witness ==
  \E c \in Enables, v \in VMs :
    /\ calls[c].pc = "failed"
    /\ \E i \in 1..Len(calls[c].issued) :
         calls[c].issued[i] = Issue("VM.clean_shutdown", v, FALSE)
    /\ Did(calls[c].issued, "VM.hard_shutdown", v)
    /\ IsPausedOf(calls[c], v)
    /\ Did(CompCalls(c), "VM.start", v)
    /\ vmPower[v] = "Paused"

\* C21: while an enable is in its VM loop, the state stored under the key
\* lists the VMs whose shutdown has completed, each with its isPaused flag:
\* the stored state grows with each shutdown instead of being written once
\* at the end.
C21_StoredStateGrowsWithShutdowns ==
  \A c \in Enables :
    (/\ calls[c].pc = "vms"
     /\ otherConfig # <<>>
     /\ JSONparse(otherConfig).timestamp = c)
    => JSONparse(otherConfig).shutdownVms
         = {<<VmUuid[v], IsPausedOf(calls[c], v)>> : v \in ShutDownBy(c)}

\* C22: whatever the interleaving of enables and disables, a failing enable
\* removes the key only when the state under the key is the one that same
\* call has written: an enable that failed with Conflict removes nothing,
\* and the compensation of an enable never clears the state of another one.
C22_FailingEnableRemovesOwnKey ==
  [][\A c \in Enables :
       (/\ calls[c].pc = "compensating"
        /\ Len(calls'[c].issued) > Len(calls[c].issued)
        /\ otherConfig # <<>>
        /\ otherConfig' = <<>>)
       => /\ calls[c].error # "Conflict"
          /\ JSONparse(otherConfig).timestamp = c]_vars

(***************************************************************************)
(* Properties of the disk import (specification SpecImport).               *)
(***************************************************************************)
ImportFailing(i) == imports[i].pc \in {"compensating", "failed"}
ImportCompCalls(i) ==
  SubSeq(imports[i].issued, imports[i].compFrom + 1, Len(imports[i].issued))
Called(log, op) == \E k \in 1..Len(log) : log[k].op = op

\* C17: importVdi of a VHD stream without a size option creates the VDI with
\* the currentSize of the footer as virtual_size; VDI_create has answered
\* before VDI_importContent reads anything of the stream; a size option is
\* used as it is and the footer is then not peeked.
C17_SizeFromFooterThenCreate ==
  /\ [](\A i \in ImportCalls :
          LET c == imports[i]
          IN /\ c.opt_size # "undefined" =>
                  /\ ~c.peeked
                  /\ ~Called(c.issued, "peekFooterFromStream")
             /\ c.consumed > 0 =>
                  /\ c.vdiRef = VdiRefOf[i]
                  /\ \E k \in 1..Len(c.issued) :
                       /\ c.issued[k] = Issue("VDI.create", "sr", TRUE)
                       /\ \A j \in 1..Len(c.issued) :
                            c.issued[j].op \in {"VDI.importContent", "VDI.destroy"}
                              => k < j
             /\ (c.vdiRef # "none" /\ vdis[VdiRefOf[i]].exists) =>
                  vdis[VdiRefOf[i]].virtual_size =
                    IF c.opt_size # "undefined" THEN c.opt_size
                    ELSE IF c.format = VDI_FORMAT_VHD THEN c.stream.currentSize
                    ELSE c.stream.length)
  /\ [][\A i \in ImportCalls :
          /\ (imports[i].pc = "create" /\ imports'[i].pc = "import") =>
               /\ imports[i].consumed = 0 /\ imports'[i].consumed = 0
               /\ vdis'[VdiRefOf[i]].exists
               /\ vdis'[VdiRefOf[i]].virtual_size \in Sizes
               /\ (imports[i].opt_size = "undefined"
                     /\ imports[i].format = VDI_FORMAT_VHD)
                    => /\ imports[i].peeked
                       /\ vdis'[VdiRefOf[i]].virtual_size
                            = imports[i].stream.currentSize
          /\ imports'[i].consumed > imports[i].consumed =>
               /\ imports[i].pc = "import"
               /\ vdis[VdiRefOf[i]].exists]_vars

\* A VHD stream whose footer says n2 and whose length is n1 has been imported
\* without a size option: the VDI has size n2 and the whole content.
C17_Witness ==
  \E i \in ImportCalls :
    /\ imports[i].pc = "done"
    /\ imports[i].format = VDI_FORMAT_VHD
    /\ imports[i].opt_size = "undefined"
    /\ imports[i].stream = [length |-> "n1", currentSize |-> "n2"]
    /\ vdis[VdiRefOf[i]] = [exists |-> TRUE, virtual_size |-> "n2",
                             content |-> MaxChunks]

\* C18: when VDI_importContent fails, VDI.destroy is called once on the ref
\* of the VDI that was created, and has answered, before importVdi returns
\* its failure; when the import succeeds VDI.destroy is not called; when
\* VDI_create fails, or importVdi fails before it, VDI.destroy is not called.
C18_FailedImportDestroysVdi ==
  /\ [](\A i \in ImportCalls :
          LET c == imports[i]
          IN /\ (c.pc = "failed" /\ c.error = "VDI.importContent") =>
                  /\ Len(ImportCompCalls(i)) = 1
                  /\ ImportCompCalls(i)[1].op = "VDI.destroy"
                  /\ ImportCompCalls(i)[1].target = c.vdiRef
                  /\ c.vdiRef = VdiRefOf[i]
                  /\ ImportCompCalls(i)[1].ok => ~vdis[c.vdiRef].exists
             /\ c.pc = "done" =>
                  /\ ~Called(c.issued, "VDI.destroy")
                  /\ vdis[c.vdiRef].exists
             /\ (ImportFailing(i) /\ c.error # "VDI.importContent") =>
                  /\ ~Called(c.issued, "VDI.destroy")
                  /\ c.deferred = <<>>
                  /\ ~vdis[VdiRefOf[i]].exists)
  /\ [][\A i \in ImportCalls :
          imports[i].pc = "failed" => imports'[i] = imports[i]]_vars

\* The import has failed after one chunk; the VDI has been destroyed and
\* importVdi has returned the failure.
C18_Witness ==
  \E i \in ImportCalls :
    /\ imports[i].pc = "failed"
    /\ imports[i].error = "VDI.importContent"
    /\ imports[i].consumed = 1
    /\ Did(imports[i].issued, "VDI.destroy", imports[i].vdiRef)
    /\ ~vdis[imports[i].vdiRef].exists

\* C19: importVdi with a format that is not VHD, no size option and a stream
\* without length fails with an AssertionError; no VDI is created, the
\* footer is not peeked and nothing of the stream is read.
C19_NoSizeNoLengthFails ==
  \A i \in ImportCalls :
    LET c == imports[i]
    IN (/\ c.pc # "idle"
        /\ c.format # VDI_FORMAT_VHD
        /\ c.opt_size = "undefined"
        /\ c.stream.length = "undefined")
       => /\ ImportFailing(i)
          /\ c.error = "AssertionError"
          /\ c.issued = <<>>
          /\ c.deferred = <<>>
          /\ c.vdiRef = "none"
          /\ ~vdis[VdiRefOf[i]].exists
          /\ ~c.peeked
          /\ c.consumed = 0

\* A raw import of a stream without length has returned its AssertionError.
C19_Witness ==
  \E i \in ImportCalls :
    /\ imports[i].pc = "failed"
    /\ imports[i].error = "AssertionError"
    /\ imports[i].format = "raw"
    /\ imports[i].stream.length = "undefined"

=============================================================================
